---- MODULE Spec2Model ----
(***************************************************************************)
(* Model of the goofi-pipe manager (src/src/goofi/manager.py) and of its   *)
(* message protocol (src/src/goofi/message.py).                            *)
(*                                                                         *)
(*   Spec     the Manager: add_node, remove_node, add_link, remove_link,   *)
(*            terminate, over a NodeContainer of node references           *)
(*   SpecMsg  Message construction (Message.__post_init__) on every        *)
(*            (type, content) pair of a bounded universe                   *)
(*   SpecMut  assignments to the fields of a constructed Message           *)
(*   SpecNode the runtime loop of one node around the process of           *)
(*            nodes/misc/tableselectstring.py or nodes/outputs/audioout.py *)
(*   SpecClf  calls of process of nodes/analysis/classifier.py             *)
(*   SpecPsd  calls of process of nodes/signal/psd.py                      *)
(*   SpecRun  Manager.run of src/neurofeedback/manager.py                  *)
(***************************************************************************)
EXTENDS Integers, Sequences, FiniteSets, TLC

VARIABLES
    headless,      \* Manager._headless
    running,       \* Manager._running
    nodes,         \* NodeContainer._nodes: insertion-ordered <<[key, ref]>>
    refs,          \* the node references created so far, by reference id
    guiClosing,    \* Window().terminate() was asked and has not called back yet
    last,          \* the last Manager call: operation, arguments, outcome
    evts,          \* the sends and closes the last Manager call performed, in order
    opCount,       \* number of Manager calls made
    termCount,     \* number of completed shutdown passes of Manager.terminate
    msgIn,         \* SpecMsg: the (type, content) handed to Message(...), which
                   \* the dataclass stores as the object's fields type and content
    msgOut,        \* SpecMsg: the outcome of the construction
    nd,            \* SpecNode: the state of one node's runtime
    inbox,         \* SpecNode: the Messages pending on the node's control Link
    loop           \* SpecRun: one call of the polling Manager's run

vars == <<headless, running, nodes, refs, guiClosing, last, evts, opCount,
          termCount, msgIn, msgOut, nd, inbox, loop>>

(***************************************************************************)
(* Bounds                                                                  *)
(***************************************************************************)
MaxRefs == 3
MaxOps == 4
MaxMsgs == 4
MaxInbox == 2
MaxSteps == 2
MaxParamChanges == 2
MaxTrain == 4
MaxCalls == 2
MaxIter == 2
MaxUpdates == 3
MaxDur == 3

(***************************************************************************)
(* message.py                                                              *)
(***************************************************************************)
MessageType ==
    {"ADD_OUTPUT_PIPE", "REMOVE_OUTPUT_PIPE", "DATA", "CLEAR_DATA",
     "PING", "PONG", "TERMINATE"}

\* Python values by their class, as isinstance sees them
StrVal(s) == [kind |-> "str", s |-> s]
ConnVal(r) == [kind |-> "Connection", ref |-> r]
DataVal == [kind |-> "Data"]
NoneVal == [kind |-> "NoneType"]

EmptyContent == [f \in {} |-> NoneVal]

\* the keyword arguments of each require_fields call, in keyword order
RequiredFields(type) ==
    CASE type = "ADD_OUTPUT_PIPE" ->
            << <<"slot_name_out", "str">>, <<"slot_name_in", "str">>,
               <<"node_connection", "Connection">> >>
      [] type = "REMOVE_OUTPUT_PIPE" ->
            << <<"slot_name_out", "str">>, <<"slot_name_in", "str">>,
               <<"node_connection", "Connection">> >>
      [] type = "DATA" -> << <<"slot_name", "str">>, <<"data", "Data">> >>
      [] type = "CLEAR_DATA" -> << <<"slot_name", "str">> >>
      [] OTHER -> << >>

Accepted == [ok |-> TRUE, err |-> "", field |-> ""]
Rejected(why, field) == [ok |-> FALSE, err |-> why, field |-> field]

\* require_fields without its isinstance check
RECURSIVE require_fields_presence_only(_, _, _)
require_fields_presence_only(content, fields, i) ==
    IF i > Len(fields) THEN [ok |-> TRUE, err |-> "", field |-> ""]
    ELSE IF fields[i][1] \notin DOMAIN content
        THEN [ok |-> FALSE, err |-> "ValueError:missing", field |-> fields[i][1]]
    ELSE require_fields_presence_only(content, fields, i + 1)

\* Message.require_fields: the first missing or mistyped field raises
RECURSIVE require_fields(_, _, _)
require_fields(content, fields, i) ==
    IF i > Len(fields) THEN Accepted
    ELSE LET field == fields[i][1]
             field_type == fields[i][2]
         IN  IF field \notin DOMAIN content
                THEN Rejected("ValueError:missing", field)
             ELSE IF content[field].kind # field_type
                THEN Rejected("ValueError:type", field)
             ELSE require_fields(content, fields, i + 1)

\* __post_init__ that also rejects any field beyond the required ones
PostInit_exact_fields(type, isDict, content) ==
    IF type = "None" THEN Rejected("ValueError:notype", "")
    ELSE IF ~isDict THEN Rejected("ValueError:nodict", "")
    ELSE IF DOMAIN content #
            {RequiredFields(type)[i][1] : i \in 1..Len(RequiredFields(type))}
        THEN Rejected("ValueError:extra", "")
    ELSE require_fields(content, RequiredFields(type), 1)

\* Message.__post_init__ on Message(type, content); isDict: content is a dict
PostInit(type, isDict, content) ==
    IF type = "None" THEN Rejected("ValueError:notype", "")
    ELSE IF ~isDict THEN Rejected("ValueError:nodict", "")
    ELSE require_fields(content, RequiredFields(type), 1)

(***************************************************************************)
(* SpecMsg: Message construction over a bounded universe of contents        *)
(***************************************************************************)
Fields ==
    {"slot_name_out", "slot_name_in", "node_connection", "slot_name", "data",
     "extra"}

FieldValues == {StrVal("in"), ConnVal(1), DataVal, NoneVal}

Contents == UNION {[S -> FieldValues] : S \in SUBSET Fields}

NotConstructed == [done |-> FALSE, ok |-> FALSE, err |-> "", field |-> ""]

NoMsgIn == [type |-> "None", isDict |-> FALSE, content |-> EmptyContent]

(***************************************************************************)
(* Link (goofi.connection.Connection) and node reference                   *)
(* (goofi.node_helpers.NodeRef)                                            *)
(***************************************************************************)
NewRef == [closed |-> FALSE, gone |-> FALSE, termSent |-> FALSE]

Message(type, content) == [type |-> type, content |-> content]

SendEvt(r, msg, ok, wasClosed) ==
    [kind |-> "send", ref |-> r, msg |-> msg, ok |-> ok, wasClosed |-> wasClosed]

CloseEvt(r, wasClosed) ==
    [kind |-> "close", ref |-> r, msg |-> Message("", EmptyContent), ok |-> TRUE,
     wasClosed |-> wasClosed]

\* Connection.send: fails with LinkClosed on a closed Link or an unreachable peer
Connection_send(rs, r, msg) ==
    LET ok == ~rs[r].closed /\ ~rs[r].gone
    IN  [ok |-> ok,
         evt |-> SendEvt(r, msg, ok, rs[r].closed),
         refs |-> IF ok /\ msg.type = "TERMINATE"
                     THEN [rs EXCEPT ![r].termSent = TRUE]
                     ELSE rs]

\* Connection.close
Connection_close(rs, r) ==
    [evt |-> CloseEvt(r, rs[r].closed),
     refs |-> [rs EXCEPT ![r].closed = TRUE]]

\* NodeRef.terminate: sends TERMINATE, then closes; an already-closed Link is
\* tolerated. Whether a send that fails on an unreachable peer is swallowed too is
\* not fixed by the Link contract: swallow chooses between the two outcomes.
NodeRef_terminate(rs, r, swallow) ==
    IF rs[r].closed THEN [ok |-> TRUE, refs |-> rs, evts |-> << >>]
    ELSE LET s == Connection_send(rs, r, Message("TERMINATE", EmptyContent))
             c == Connection_close(s.refs, r)
         IN  IF ~s.ok /\ ~swallow
                THEN [ok |-> FALSE, refs |-> s.refs, evts |-> <<s.evt>>]
                ELSE [ok |-> TRUE, refs |-> c.refs, evts |-> <<s.evt, c.evt>>]

(***************************************************************************)
(* manager.py: NodeContainer                                               *)
(***************************************************************************)
Digits == <<"0", "1", "2", "3", "4", "5", "6", "7", "8", "9">>

\* str(idx) of the f-string: decimal, no padding
RECURSIVE Str(_)
Str(n) == IF n < 10 THEN Digits[n + 1] ELSE Str(n \div 10) \o Digits[(n % 10) + 1]

\* f"{name}{idx}"
KeyOf(name, idx) == name \o Str(idx)

Keys(ns) == {ns[i].key : i \in 1..Len(ns)}

\* NodeContainer.__contains__
Contains(ns, name) == name \in Keys(ns)

\* NodeContainer.__getitem__ (on a present name)
GetItem(ns, name) == ns[CHOOSE i \in 1..Len(ns) : ns[i].key = name].ref

\* NodeContainer.__iter__: the keys in insertion order
Iter(ns) == [i \in 1..Len(ns) |-> ns[i].key]

\* add_node without its while loop: always the starting index
FirstFree_no_loop(ns, name, idx) == idx

\* add_node numbering from the size of the container instead of from 0
FirstFree_from_len(ns, name, idx) ==
    LET start == idx + Len(ns)
    IN  CHOOSE k \in start..(start + Len(ns)) :
            /\ KeyOf(name, k) \notin Keys(ns)
            /\ \A j \in start..(k - 1) : KeyOf(name, j) \in Keys(ns)

\* the while loop of NodeContainer.add_node, from idx upwards
RECURSIVE FirstFree(_, _, _)
FirstFree(ns, name, idx) ==
    IF KeyOf(name, idx) \in Keys(ns) THEN FirstFree(ns, name, idx + 1) ELSE idx

\* add_node putting the new entry first in iteration order
Container_add_node_front(ns, name, node) ==
    LET idx == FirstFree(ns, name, 0)
    IN  [nodes |-> <<[key |-> KeyOf(name, idx), ref |-> node]>> \o ns,
         key |-> KeyOf(name, idx)]

\* NodeContainer.add_node
Container_add_node(ns, name, node) ==
    LET idx == FirstFree(ns, name, 0)
    IN  [nodes |-> Append(ns, [key |-> KeyOf(name, idx), ref |-> node]),
         key |-> KeyOf(name, idx)]

\* del self._nodes[name]
DelKey(ns, name) == SelectSeq(ns, LAMBDA e : e.key # name)

(***************************************************************************)
(* manager.py: Manager                                                     *)
(***************************************************************************)
\* the node modules under src/src/goofi/nodes: category, module, class
Registry ==
    {[category |-> "signal", module |-> "psd", class |-> "PSD"],
     [category |-> "outputs", module |-> "audioout", class |-> "AudioOut"]}

\* the names and categories add_node is called with
TypeNames == {"PSD", "psd", "AudioOut"}
Categories == {"signal", "outputs"}

\* str.lower on the names above
Lower(name) ==
    CASE name = "PSD" -> "psd"
      [] name = "AudioOut" -> "audioout"
      [] OTHER -> name

\* the node names and slot names the other calls are made with
NodeNames == {"psd0", "psd1", "audioout0"}
SlotsOut == {"psd"}
SlotsIn == {"data"}

Call(op, args, notify, result, ret, key) ==
    [op |-> op, args |-> args, notify |-> notify, result |-> result,
     ret |-> ret, key |-> key, wasRunning |-> running, termBefore |-> termCount]

NoCall ==
    [op |-> "", args |-> << >>, notify |-> FALSE, result |-> "", ret |-> "",
     key |-> "", wasRunning |-> TRUE, termBefore |-> 0]

\* the observer call made after a mutation: only when not headless and notify_gui
Notified(notify, guiOk) == IF ~headless /\ notify /\ ~guiOk THEN "ObserverError" ELSE "ok"

\* add_node registering a placeholder before the node is constructed: a failed
\* construction leaves the key behind
AddNode_register_first(name, category, notify, spawnOk, guiOk) ==
    /\ opCount < MaxOps
    /\ opCount' = opCount + 1
    /\ evts' = << >>
    /\ UNCHANGED <<headless, running, guiClosing, termCount, msgIn, msgOut, nd, inbox, loop>>
    /\ IF ~\E m \in Registry :
               m.category = category /\ m.module = Lower(name) /\ m.class = name
          THEN /\ last' = Call("add_node", <<name, category>>, notify,
                               "ModuleNotFoundError", "", "")
               /\ UNCHANGED <<nodes, refs>>
       ELSE /\ Len(refs) < MaxRefs
            /\ refs' = Append(refs, NewRef)
            /\ LET a == Container_add_node(nodes, Lower(name), Len(refs) + 1)
                   res == IF spawnOk THEN Notified(notify, guiOk) ELSE "SpawnError"
               IN  /\ nodes' = a.nodes
                   /\ last' = Call("add_node", <<name, category>>, notify, res,
                                   IF res = "ok" THEN a.key ELSE "",
                                   IF spawnOk THEN a.key ELSE "")

\* Manager.add_node(name, category, notify_gui)
AddNode(name, category, notify, spawnOk, guiOk) ==
    /\ opCount < MaxOps
    /\ opCount' = opCount + 1
    /\ evts' = << >>
    /\ UNCHANGED <<headless, running, guiClosing, termCount, msgIn, msgOut, nd, inbox, loop>>
    /\ IF ~\E m \in Registry : m.category = category /\ m.module = Lower(name)
          THEN /\ last' = Call("add_node", <<name, category>>, notify,
                               "ModuleNotFoundError", "", "")
               /\ UNCHANGED <<nodes, refs>>
       ELSE IF ~\E m \in Registry :
                    m.category = category /\ m.module = Lower(name) /\ m.class = name
          THEN /\ last' = Call("add_node", <<name, category>>, notify,
                               "AttributeError", "", "")
               /\ UNCHANGED <<nodes, refs>>
       ELSE IF ~spawnOk
          THEN /\ last' = Call("add_node", <<name, category>>, notify,
                               "SpawnError", "", "")
               /\ UNCHANGED <<nodes, refs>>
       ELSE /\ Len(refs) < MaxRefs
            /\ refs' = Append(refs, NewRef)
            /\ LET a == Container_add_node(nodes, Lower(name), Len(refs) + 1)
                   res == Notified(notify, guiOk)
               IN  /\ nodes' = a.nodes
                   /\ last' = Call("add_node", <<name, category>>, notify, res,
                                   IF res = "ok" THEN a.key ELSE "", a.key)

\* remove_node that ignores an absent name instead of raising (dict.pop(name, None))
RemoveNode_absent_ignored(name, notify, guiOk, swallow) ==
    /\ opCount < MaxOps
    /\ opCount' = opCount + 1
    /\ UNCHANGED <<headless, running, guiClosing, termCount, msgIn, msgOut, nd, inbox, loop>>
    /\ IF Contains(nodes, name)
          THEN LET t == NodeRef_terminate(refs, GetItem(nodes, name), swallow)
               IN  /\ refs' = t.refs
                   /\ evts' = t.evts
                   /\ nodes' = IF t.ok THEN DelKey(nodes, name) ELSE nodes
                   /\ last' = Call("remove_node", <<name>>, notify,
                                   IF t.ok THEN Notified(notify, guiOk)
                                   ELSE "LinkClosed", "",
                                   IF t.ok THEN name ELSE "")
          ELSE /\ last' = Call("remove_node", <<name>>, notify,
                               Notified(notify, guiOk), "", "")
               /\ evts' = << >>
               /\ UNCHANGED <<nodes, refs>>

\* remove_node that also tells every other node to drop its pipes to the removed
\* node
RemoveNode_retracts_links(name, notify, guiOk, swallow) ==
    /\ opCount < MaxOps
    /\ opCount' = opCount + 1
    /\ UNCHANGED <<headless, running, guiClosing, termCount, msgIn, msgOut, nd, inbox, loop>>
    /\ IF Contains(nodes, name)
          THEN LET r == GetItem(nodes, name)
                   t == NodeRef_terminate(refs, r, swallow)
                   others == SelectSeq(nodes, LAMBDA e : e.key # name)
                   retract == [i \in 1..Len(others) |->
                                 Connection_send(t.refs, others[i].ref,
                                    Message("REMOVE_OUTPUT_PIPE",
                                       [f \in {"node_connection"} |-> ConnVal(r)])).evt]
               IN  /\ refs' = t.refs
                   /\ evts' = IF t.ok THEN t.evts \o retract ELSE t.evts
                   /\ nodes' = IF t.ok THEN DelKey(nodes, name) ELSE nodes
                   /\ last' = Call("remove_node", <<name>>, notify,
                                   IF t.ok THEN Notified(notify, guiOk)
                                   ELSE "LinkClosed", "",
                                   IF t.ok THEN name ELSE "")
          ELSE /\ last' = Call("remove_node", <<name>>, notify, "KeyError", "", "")
               /\ evts' = << >>
               /\ UNCHANGED <<nodes, refs>>

\* remove_node deleting the key before it terminates the node
RemoveNode_delete_first(name, notify, guiOk, swallow) ==
    /\ opCount < MaxOps
    /\ opCount' = opCount + 1
    /\ UNCHANGED <<headless, running, guiClosing, termCount, msgIn, msgOut, nd, inbox, loop>>
    /\ IF Contains(nodes, name)
          THEN LET t == NodeRef_terminate(refs, GetItem(nodes, name), swallow)
               IN  /\ refs' = t.refs
                   /\ evts' = t.evts
                   /\ nodes' = DelKey(nodes, name)
                   /\ last' = Call("remove_node", <<name>>, notify,
                                   IF t.ok THEN Notified(notify, guiOk)
                                   ELSE "LinkClosed", "",
                                   IF t.ok THEN name ELSE "")
          ELSE /\ last' = Call("remove_node", <<name>>, notify, "KeyError", "", "")
               /\ evts' = << >>
               /\ UNCHANGED <<nodes, refs>>

\* NodeContainer.remove_node, then the observer call of Manager.remove_node: an
\* exception of NodeRef.terminate leaves the method before the del
RemoveNode(name, notify, guiOk, swallow) ==
    /\ opCount < MaxOps
    /\ opCount' = opCount + 1
    /\ UNCHANGED <<headless, running, guiClosing, termCount, msgIn, msgOut, nd, inbox, loop>>
    /\ IF Contains(nodes, name)
          THEN LET t == NodeRef_terminate(refs, GetItem(nodes, name), swallow)
               IN  /\ refs' = t.refs
                   /\ evts' = t.evts
                   /\ nodes' = IF t.ok THEN DelKey(nodes, name) ELSE nodes
                   /\ last' = Call("remove_node", <<name>>, notify,
                                   IF t.ok THEN Notified(notify, guiOk)
                                   ELSE "LinkClosed", "",
                                   IF t.ok THEN name ELSE "")
          ELSE /\ last' = Call("remove_node", <<name>>, notify, "KeyError", "", "")
               /\ evts' = << >>
               /\ UNCHANGED <<nodes, refs>>

\* remove_link copied from add_link with the message type left as it was
LinkType_always_add(op) == "ADD_OUTPUT_PIPE"

\* the MessageType add_link and remove_link put in their Message
LinkType(op) ==
    CASE op = "add_link" -> "ADD_OUTPUT_PIPE"
      [] op = "remove_link" -> "REMOVE_OUTPUT_PIPE"

\* the content dict with the two slot names under each other's key
LinkContent_slots_swapped(slot_out, slot_in, connRef) ==
    [f \in {"slot_name_out", "slot_name_in", "node_connection"} |->
        CASE f = "slot_name_out" -> StrVal(slot_in)
          [] f = "slot_name_in" -> StrVal(slot_out)
          [] OTHER -> ConnVal(connRef)]

\* the content dict add_link and remove_link build
LinkContent(slot_out, slot_in, connRef) ==
    [f \in {"slot_name_out", "slot_name_in", "node_connection"} |->
        CASE f = "slot_name_out" -> StrVal(slot_out)
          [] f = "slot_name_in" -> StrVal(slot_in)
          [] OTHER -> ConnVal(connRef)]

\* add_link / remove_link looking up node_in with dict.get: an absent node_in
\* does not raise and the message goes out without a Link
LinkCall_in_unchecked(op, type, node_out, node_in, slot_out, slot_in, notify, guiOk) ==
    LET args == <<node_out, node_in, slot_out, slot_in>>
        content == [f \in {"slot_name_out", "slot_name_in", "node_connection"} |->
                      CASE f = "slot_name_out" -> StrVal(slot_out)
                        [] f = "slot_name_in" -> StrVal(slot_in)
                        [] OTHER -> IF Contains(nodes, node_in)
                                       THEN ConnVal(GetItem(nodes, node_in))
                                       ELSE ConnVal(0)]
    IN  /\ opCount' = opCount + 1
        /\ UNCHANGED <<headless, running, nodes, guiClosing, termCount, msgIn, msgOut, nd, inbox, loop>>
        /\ IF ~Contains(nodes, node_out)
              THEN /\ last' = Call(op, args, notify, "KeyError", "", "")
                   /\ evts' = << >>
                   /\ UNCHANGED refs
           ELSE LET s == Connection_send(refs, GetItem(nodes, node_out),
                                         Message(type, content))
                IN  /\ refs' = s.refs
                    /\ evts' = <<s.evt>>
                    /\ last' = Call(op, args, notify,
                                    IF s.ok THEN Notified(notify, guiOk)
                                    ELSE "LinkClosed", "", "")

\* the body shared by Manager.add_link and Manager.remove_link
LinkCall(op, type, node_out, node_in, slot_out, slot_in, notify, guiOk) ==
    LET args == <<node_out, node_in, slot_out, slot_in>>
        content == LinkContent(slot_out, slot_in, GetItem(nodes, node_in))
    IN  /\ opCount' = opCount + 1
        /\ UNCHANGED <<headless, running, nodes, guiClosing, termCount, msgIn, msgOut, nd, inbox, loop>>
        /\ IF ~Contains(nodes, node_out) \/ ~Contains(nodes, node_in)
              THEN /\ last' = Call(op, args, notify, "KeyError", "", "")
                   /\ evts' = << >>
                   /\ UNCHANGED refs
           ELSE IF ~PostInit(type, TRUE, content).ok
              THEN /\ last' = Call(op, args, notify, "ValueError", "", "")
                   /\ evts' = << >>
                   /\ UNCHANGED refs
           ELSE LET s == Connection_send(refs, GetItem(nodes, node_out),
                                         Message(type, content))
                IN  /\ refs' = s.refs
                    /\ evts' = <<s.evt>>
                    /\ last' = Call(op, args, notify,
                                    IF s.ok THEN Notified(notify, guiOk)
                                    ELSE "LinkClosed", "", "")

\* Manager.add_link
AddLink(node_out, node_in, slot_out, slot_in, notify, guiOk) ==
    /\ opCount < MaxOps
    /\ LinkCall("add_link", LinkType("add_link"), node_out, node_in, slot_out, slot_in,
                notify, guiOk)

\* Manager.remove_link
RemoveLink(node_out, node_in, slot_out, slot_in, notify, guiOk) ==
    /\ opCount < MaxOps
    /\ LinkCall("remove_link", LinkType("remove_link"), node_out, node_in, slot_out,
                slot_in, notify, guiOk)

\* terminate sending a PING probe where the TERMINATE belongs
TerminateMessage_ping == Message("PING", EmptyContent)

\* Message(MessageType.TERMINATE, {})
TerminateMessage == Message("TERMINATE", EmptyContent)

\* the for loop closing each Link before it sends the TERMINATE on it
RECURSIVE TerminateLoop_close_first(_, _, _, _)
TerminateLoop_close_first(ns, rs, ev, i) ==
    IF i > Len(ns) THEN [refs |-> rs, evts |-> ev, result |-> "ok"]
    ELSE LET r == GetItem(ns, Iter(ns)[i])
             c == Connection_close(rs, r)
             s == Connection_send(c.refs, r, TerminateMessage)
         IN  IF ~s.ok
                THEN [refs |-> s.refs, evts |-> ev \o <<c.evt, s.evt>>,
                      result |-> "LinkClosed"]
             ELSE TerminateLoop_close_first(ns, s.refs, ev \o <<c.evt, s.evt>>, i + 1)

\* the for loop of Manager.terminate from the i-th key on: a failed send raises out
RECURSIVE TerminateLoop(_, _, _, _)
TerminateLoop(ns, rs, ev, i) ==
    IF i > Len(ns) THEN [refs |-> rs, evts |-> ev, result |-> "ok"]
    ELSE LET r == GetItem(ns, Iter(ns)[i])
             init == PostInit(TerminateMessage.type, TRUE, TerminateMessage.content)
             s == Connection_send(rs, r, TerminateMessage)
             c == Connection_close(s.refs, r)
         IN  IF ~init.ok
                THEN [refs |-> rs, evts |-> ev, result |-> "ValueError"]
             ELSE IF ~s.ok
                THEN [refs |-> s.refs, evts |-> Append(ev, s.evt),
                      result |-> "LinkClosed"]
             ELSE TerminateLoop(ns, c.refs, ev \o <<s.evt, c.evt>>, i + 1)

\* terminate clearing _running only after the loop: a raising send leaves it set
Shutdown_running_after_loop(notify) ==
    LET t == TerminateLoop(nodes, refs, << >>, 1)
    IN  /\ running' = IF t.result = "ok" THEN FALSE ELSE running
        /\ refs' = t.refs
        /\ evts' = t.evts
        /\ termCount' = IF t.result = "ok" THEN termCount + 1 ELSE termCount
        /\ last' = Call("terminate", << >>, notify, t.result, "", "")
        /\ UNCHANGED <<headless, nodes, msgIn, msgOut, nd, inbox, loop>>

\* the else branch of Manager.terminate
Shutdown(notify) ==
    LET t == TerminateLoop(nodes, refs, << >>, 1)
    IN  /\ running' = FALSE
        /\ refs' = t.refs
        /\ evts' = t.evts
        /\ termCount' = IF t.result = "ok" THEN termCount + 1 ELSE termCount
        /\ last' = Call("terminate", << >>, notify, t.result, "", "")
        /\ UNCHANGED <<headless, nodes, msgIn, msgOut, nd, inbox, loop>>

\* Manager.terminate(notify_gui)
Terminate(notify) ==
    /\ opCount < MaxOps
    /\ opCount' = opCount + 1
    /\ IF ~headless /\ notify
          THEN /\ guiClosing' = TRUE
               /\ evts' = << >>
               /\ last' = Call("terminate", << >>, notify, "ok", "", "")
               /\ UNCHANGED <<headless, running, nodes, refs, termCount, msgIn, msgOut, nd, inbox, loop>>
          ELSE /\ Shutdown(notify)
               /\ UNCHANGED guiClosing

\* the window, once closed, calls manager.terminate(notify_gui=False)
WindowClosed ==
    /\ guiClosing
    /\ guiClosing' = FALSE
    /\ Shutdown(FALSE)
    /\ UNCHANGED opCount

\* a node's process dies: its Link's peer becomes unreachable
PeerUnreachable(r) ==
    /\ ~refs[r].gone
    /\ ~refs[r].closed
    /\ refs' = [refs EXCEPT ![r].gone = TRUE]
    /\ UNCHANGED <<headless, running, nodes, guiClosing, last, evts, opCount,
                   termCount, msgIn, msgOut, nd, inbox, loop>>

\* no node runtime is part of the Manager's own state
NoNode == [cls |-> ""]

\* nor is a run of the polling Manager of src/neurofeedback
NoRun == [pc |-> ""]

\* Manager.__init__(headless)
ManagerInit(h) ==
    /\ headless = h
    /\ running = TRUE
    /\ nodes = << >>
    /\ refs = << >>
    /\ guiClosing = FALSE
    /\ last = NoCall
    /\ evts = << >>
    /\ opCount = 0
    /\ termCount = 0

Init ==
    /\ \E h \in BOOLEAN : ManagerInit(h)
    /\ msgIn = NoMsgIn
    /\ msgOut = NotConstructed
    /\ nd = NoNode
    /\ inbox = << >>
    /\ loop = NoRun

Next ==
    \/ \E name \in TypeNames, category \in Categories, notify, spawnOk, guiOk \in BOOLEAN :
          AddNode(name, category, notify, spawnOk, guiOk)
    \/ \E name \in NodeNames, notify, guiOk, swallow \in BOOLEAN :
          RemoveNode(name, notify, guiOk, swallow)
    \/ \E node_out, node_in \in NodeNames, slot_out \in SlotsOut, slot_in \in SlotsIn,
          notify, guiOk \in BOOLEAN :
          AddLink(node_out, node_in, slot_out, slot_in, notify, guiOk)
    \/ \E node_out, node_in \in NodeNames, slot_out \in SlotsOut, slot_in \in SlotsIn,
          notify, guiOk \in BOOLEAN :
          RemoveLink(node_out, node_in, slot_out, slot_in, notify, guiOk)
    \/ \E notify \in BOOLEAN : Terminate(notify)
    \/ WindowClosed
    \/ \E r \in 1..Len(refs) : PeerUnreachable(r)

Spec == Init /\ [][Next]_vars

(***************************************************************************)
(* SpecMsg: Message(type, content) for every type and bounded content      *)
(***************************************************************************)
\* Message(type, content): the dataclass __init__ followed by __post_init__
Construct ==
    /\ ~msgOut.done
    /\ LET r == PostInit(msgIn.type, msgIn.isDict, msgIn.content)
       IN  msgOut' = [done |-> TRUE, ok |-> r.ok, err |-> r.err, field |-> r.field]
    /\ UNCHANGED <<headless, running, nodes, refs, guiClosing, last, evts, opCount,
                   termCount, msgIn, nd, inbox, loop>>

InitMsg ==
    /\ ManagerInit(TRUE)
    /\ nd = NoNode
    /\ inbox = << >>
    /\ loop = NoRun
    /\ msgOut = NotConstructed
    /\ \/ \E type \in MessageType, content \in Contents :
             msgIn = [type |-> type, isDict |-> TRUE, content |-> content]
       \/ \E type \in MessageType :
             msgIn = [type |-> type, isDict |-> FALSE, content |-> EmptyContent]
       \/ \E content \in Contents :
             msgIn = [type |-> "None", isDict |-> TRUE, content |-> content]

NextMsg == Construct

SpecMsg == InitMsg /\ [][NextMsg]_vars

(***************************************************************************)
(* SpecMut: a constructed Message is a plain (not frozen) dataclass, whose  *)
(* fields take assignments and whose content is an ordinary dict           *)
(***************************************************************************)
MsgFrame ==
    UNCHANGED <<headless, running, nodes, refs, guiClosing, last, evts, opCount,
                termCount, msgOut, nd, inbox, loop>>

\* message.type = t on a constructed Message
SetType(t) ==
    /\ msgOut.done /\ msgOut.ok
    /\ t # msgIn.type
    /\ msgIn' = [msgIn EXCEPT !.type = t]
    /\ MsgFrame

\* message.content[f] = v on a constructed Message
SetItem(f, v) ==
    /\ msgOut.done /\ msgOut.ok
    /\ msgIn' = [msgIn EXCEPT !.content =
                    [g \in DOMAIN msgIn.content \cup {f} |->
                        IF g = f THEN v ELSE msgIn.content[g]]]
    /\ MsgFrame

\* del message.content[f] on a constructed Message
DelItem(f) ==
    /\ msgOut.done /\ msgOut.ok
    /\ f \in DOMAIN msgIn.content
    /\ msgIn' = [msgIn EXCEPT !.content =
                    [g \in DOMAIN msgIn.content \ {f} |-> msgIn.content[g]]]
    /\ MsgFrame

NextMut ==
    \/ Construct
    \/ \E t \in MessageType : SetType(t)
    \/ \E f \in Fields, v \in FieldValues : SetItem(f, v)
    \/ \E f \in Fields : DelItem(f)

SpecMut == InitMsg /\ [][NextMut]_vars

(***************************************************************************)
(* Node classes: nodes/misc/tableselectstring.py, nodes/outputs/audioout.py *)
(***************************************************************************)
\* goofi.data.Data: a payload of some DataType with its metadata
Data(dtype, data, meta) ==
    [kind |-> "Data", dtype |-> dtype, data |-> data, meta |-> meta]

\* an input slot as process sees it: None when empty, else the pending Data
EmptySlot == [full |-> FALSE]
FullSlot(d) == [full |-> TRUE, val |-> d]

\* what one call of process comes to: an exception, None, or the outputs dict
Raised(err) == [kind |-> "raised", err |-> err, data |-> "", meta |-> ""]
ReturnedNone == [kind |-> "none", err |-> "", data |-> "", meta |-> ""]
Returned(data, meta) == [kind |-> "out", err |-> "", data |-> data, meta |-> meta]

\* TableSelectString.config_input_slots / config_output_slots / config_params
TableSelectString_input == "input_table"
TableSelectString_output == "output_string"
TableSelectString_key == "default_key"

\* the payload of a TABLE Data: None, or a dict of key -> Data
NoneTable == [isNone |-> TRUE, entries |-> << >>]
Table(entries) == [isNone |-> FALSE, entries |-> entries]

\* process accepting only the values that are not strings
TableSelectString_process_dtype_inverted(input_table, selected_key) ==
    IF ~input_table.full \/ input_table.val.data.isNone THEN Raised("ValueError")
    ELSE IF selected_key \notin DOMAIN input_table.val.data.entries
        THEN Raised("KeyError")
    ELSE LET selected_value == input_table.val.data.entries[selected_key]
         IN  IF selected_value.dtype = "STRING" THEN Raised("ValueError")
             ELSE Returned(selected_value.data, input_table.val.meta)

\* TableSelectString.process
TableSelectString_process(input_table, selected_key) ==
    IF ~input_table.full \/ input_table.val.data.isNone THEN Raised("ValueError")
    ELSE IF selected_key \notin DOMAIN input_table.val.data.entries
        THEN Raised("KeyError")
    ELSE LET selected_value == input_table.val.data.entries[selected_key]
         IN  IF selected_value.dtype # "STRING" THEN Raised("ValueError")
             ELSE Returned(selected_value.data, input_table.val.meta)

\* AudioOut.config_input_slots / config_params
AudioOut_input == "data"
SamplingRates == {"44100", "48000"}
Devices == {"dev0", "dev1"}

\* int(self.params.audio.sampling_rate.value)
ParseInt(str) ==
    CASE str = "44100" -> 44100
      [] str = "48000" -> 48000

\* self.stream: no attribute yet, None, or an OutputStream that is open or closed
NoStream == [state |-> "unset", samplerate |-> 0, device |-> ""]
NoSample == [set |-> FALSE, v |-> 0]

\* the attributes of an AudioOut instance and its audio parameters
AudioOutObject(rate, device) ==
    [sampling_rate |-> rate, device |-> device, stream |-> NoStream,
     last_sample |-> NoSample]

\* AudioOut.setup; devOk: sd.OutputStream(...) and start() succeed
AudioOut_setup(self, devOk) ==
    LET stopped == IF self.stream.state \in {"open", "closed"}
                      THEN [self EXCEPT !.stream.state = "closed"]
                      ELSE self
    IN  IF ~devOk THEN [ok |-> FALSE, self |-> stopped]
        ELSE [ok |-> TRUE,
              self |-> [stopped EXCEPT
                          !.stream = [state |-> "open",
                                      samplerate |-> ParseInt(self.sampling_rate),
                                      device |-> self.device],
                          !.last_sample = NoSample]]

\* AudioOut.process: returns None; wrote tells whether stream.write was reached
\* and succeeded
AudioOut_process(self, data) ==
    IF ~data.full THEN [out |-> ReturnedNone, self |-> self, wrote |-> FALSE]
    ELSE IF self.stream.state = "unset"
        THEN [out |-> Raised("AttributeError"), self |-> self, wrote |-> FALSE]
    ELSE IF self.stream.state = "none"
        THEN [out |-> Raised("RuntimeError"), self |-> self, wrote |-> FALSE]
    ELSE LET samples == data.val.data
             first == IF self.last_sample.set THEN self.last_sample.v
                      ELSE samples[Len(samples)]
             written == <<first>> \o samples
             after == [self EXCEPT !.last_sample =
                          [set |-> TRUE, v |-> written[Len(written)]]]
         IN  IF self.stream.state = "closed"
                THEN [out |-> Raised("PortAudioError"), self |-> after,
                      wrote |-> FALSE]
                ELSE [out |-> ReturnedNone, self |-> after, wrote |-> TRUE]

\* the parameter-change methods AudioOut defines
AudioOut_hooks == {"audio_sampling_frequency_changed", "audio_device_changed"}

(***************************************************************************)
(* SpecNode: the runtime loop of one node (goofi.node.Node) around the      *)
(* process of its class, fed by the Manager's control Messages and by the   *)
(* DATA of its peers                                                        *)
(***************************************************************************)
NodeClasses == {"TableSelectString", "AudioOut"}

\* the Links of the peer nodes a Manager may wire to the node's output
Peers == {2, 3}
PeerSlots == {"data"}

TableEntries ==
    UNION {[K -> {Data("STRING", "a", "k"), Data("ARRAY", "x", "k")}] :
              K \in SUBSET {TableSelectString_key}}
TableInputs ==
    {Data("TABLE", NoneTable, "m")} \cup
    {Data("TABLE", Table(e), "m") : e \in TableEntries}
AudioInputs == {Data("ARRAY", <<1, 2>>, "m"), Data("ARRAY", <<3>>, "m")}

InputSlot(cls) ==
    IF cls = "TableSelectString" THEN TableSelectString_input ELSE AudioOut_input
OutputSlots(cls) ==
    IF cls = "TableSelectString" THEN {TableSelectString_output} ELSE {}
Hooks(cls) == IF cls = "AudioOut" THEN AudioOut_hooks ELSE {}

\* the method the runtime looks up when parameter param of group changes
HookName(group, param) == group \o "_" \o param \o "_changed"

NoStep == [kind |-> "", err |-> "", data |-> "", meta |-> ""]

\* a node right after its process was spawned; obj: the instance after setup
NodeStart(cls, obj) ==
    [cls |-> cls, alive |-> TRUE, closed |-> FALSE, slot |-> EmptySlot,
     subs |-> {}, obj |-> obj, out |-> NoStep, prev |-> "", to |-> {},
     wrote |-> FALSE, reply |-> "", termRecv |-> FALSE, steps |-> 0,
     \* what the Manager has asked for so far
     linked |-> {}, unlinked |-> {}, termAsked |-> FALSE,
     delivered |-> 0, changes |-> 0]

\* the runtime's reaction to one received Message
Node_handle(n, msg) ==
    LET c == msg.content
        quiet == [n EXCEPT !.reply = ""]
    IN  CASE msg.type = "DATA" ->
                IF c["slot_name"].s = InputSlot(n.cls)
                   THEN [quiet EXCEPT !.slot = FullSlot(c["data"])]
                   ELSE quiet
          [] msg.type = "CLEAR_DATA" ->
                IF c["slot_name"].s = InputSlot(n.cls)
                   THEN [quiet EXCEPT !.slot = EmptySlot]
                   ELSE quiet
          [] msg.type = "ADD_OUTPUT_PIPE" ->
                IF c["slot_name_out"].s \in OutputSlots(n.cls)
                   THEN [quiet EXCEPT !.subs = @ \cup
                            {<<c["node_connection"].ref, c["slot_name_in"].s>>}]
                   ELSE quiet
          [] msg.type = "REMOVE_OUTPUT_PIPE" ->
                IF c["slot_name_out"].s \in OutputSlots(n.cls)
                   THEN [quiet EXCEPT !.subs = @ \
                            {<<c["node_connection"].ref, c["slot_name_in"].s>>}]
                   ELSE quiet
          [] msg.type = "PING" -> [n EXCEPT !.reply = "PONG"]
          [] msg.type = "TERMINATE" ->
                [quiet EXCEPT !.alive = FALSE, !.closed = TRUE, !.termRecv = TRUE]
          [] OTHER -> quiet

\* one cycle of the loop: process on the current slot, an exception caught and
\* counted as no output, an output forwarded to every subscriber of its slot
Node_step(n) ==
    LET done == [n EXCEPT !.steps = @ + 1, !.prev = n.out.kind]
    IN  IF n.cls = "TableSelectString"
           THEN LET r == TableSelectString_process(n.slot, TableSelectString_key)
                IN  [done EXCEPT !.out = r, !.wrote = FALSE,
                                 !.to = IF r.kind = "out" THEN n.subs ELSE {}]
           ELSE LET r == AudioOut_process(n.obj, n.slot)
                IN  [done EXCEPT !.out = r.out, !.obj = r.self,
                                 !.wrote = r.wrote, !.to = {}]

\* the DATA Message the runtime forwards to the subscriber (link, slot_in)
Forwarded(n, slot_in) ==
    Message("DATA", [f \in {"slot_name", "data"} |->
                        IF f = "slot_name" THEN StrVal(slot_in)
                        ELSE Data("STRING", n.out.data, n.out.meta)])

NodeFrame ==
    UNCHANGED <<headless, running, nodes, refs, guiClosing, last, evts, opCount,
                termCount, msgIn, msgOut, loop>>

Deliverable ==
    /\ ~nd.closed
    /\ nd.delivered < MaxMsgs
    /\ Len(inbox) < MaxInbox

Deliver(msg) ==
    /\ PostInit(msg.type, TRUE, msg.content).ok
    /\ inbox' = Append(inbox, msg)

\* Manager.add_link / Manager.remove_link with this node as node_out
MgrLink(op, peer, slot_in) ==
    /\ Deliverable
    /\ ~nd.termAsked
    /\ nd.cls = "TableSelectString"
    /\ Deliver(Message(LinkType(op),
                       LinkContent(TableSelectString_output, slot_in, peer)))
    /\ nd' = [nd EXCEPT
                !.delivered = @ + 1,
                !.linked = IF op = "add_link" THEN @ \cup {<<peer, slot_in>>}
                           ELSE @ \ {<<peer, slot_in>>},
                !.unlinked = IF op = "add_link" THEN @ \ {<<peer, slot_in>>}
                             ELSE IF <<peer, slot_in>> \in nd.linked
                                THEN @ \cup {<<peer, slot_in>>}
                             ELSE @]
    /\ NodeFrame

\* Manager.terminate reaching this node: TERMINATE is sent, then the Manager's
\* end of the control Link is closed
MgrTerminate ==
    /\ Deliverable
    /\ ~nd.termAsked
    /\ Deliver(TerminateMessage)
    /\ nd' = [nd EXCEPT !.delivered = @ + 1, !.termAsked = TRUE]
    /\ NodeFrame

\* a health check on the control Link
Ping ==
    /\ Deliverable
    /\ ~nd.termAsked
    /\ Deliver(Message("PING", EmptyContent))
    /\ nd' = [nd EXCEPT !.delivered = @ + 1]
    /\ NodeFrame

\* CLEAR_DATA for the node's input slot
ClearData ==
    /\ Deliverable
    /\ ~nd.termAsked
    /\ Deliver(Message("CLEAR_DATA",
                       [f \in {"slot_name"} |-> StrVal(InputSlot(nd.cls))]))
    /\ nd' = [nd EXCEPT !.delivered = @ + 1]
    /\ NodeFrame

\* a peer forwarding d to the node's input slot
PeerData(d) ==
    /\ Deliverable
    /\ Deliver(Message("DATA",
                       [f \in {"slot_name", "data"} |->
                           IF f = "slot_name" THEN StrVal(InputSlot(nd.cls))
                           ELSE d]))
    /\ nd' = [nd EXCEPT !.delivered = @ + 1]
    /\ NodeFrame

\* the loop taking the next pending Message
Handle ==
    /\ nd.alive
    /\ inbox # << >>
    /\ nd' = Node_handle(nd, Head(inbox))
    /\ inbox' = Tail(inbox)
    /\ NodeFrame

\* the loop, with nothing pending, running one processing cycle
Step ==
    /\ nd.alive
    /\ inbox = << >>
    /\ nd.steps < MaxSteps
    /\ nd' = Node_step(nd)
    /\ \A sub \in nd'.to :
          PostInit("DATA", TRUE, Forwarded(nd', sub[2]).content).ok
    /\ UNCHANGED inbox
    /\ NodeFrame

\* a parameter of group audio set to value: the runtime stores it, then calls
\* the node's <group>_<param>_changed method when the class defines one
ParamChange(param, value, devOk) ==
    /\ nd.alive
    /\ nd.cls = "AudioOut"
    /\ nd.changes < MaxParamChanges
    /\ value # nd.obj[param]
    /\ LET stored == [nd.obj EXCEPT ![param] = value]
       IN  nd' = [nd EXCEPT
                    !.changes = @ + 1,
                    !.obj = IF HookName("audio", param) \in Hooks(nd.cls)
                               THEN AudioOut_setup(stored, devOk).self
                               ELSE stored]
    /\ UNCHANGED inbox
    /\ NodeFrame

InitNode ==
    /\ ManagerInit(TRUE)
    /\ msgIn = NoMsgIn
    /\ msgOut = NotConstructed
    /\ inbox = << >>
    /\ loop = NoRun
    /\ \/ nd = NodeStart("TableSelectString", [cls |-> "TableSelectString"])
       \/ \E devOk \in BOOLEAN :
             nd = NodeStart("AudioOut",
                            AudioOut_setup(AudioOutObject("44100", "dev0"),
                                           devOk).self)

NextNode ==
    \/ \E op \in {"add_link", "remove_link"}, peer \in Peers, slot_in \in PeerSlots :
          MgrLink(op, peer, slot_in)
    \/ MgrTerminate
    \/ Ping
    \/ ClearData
    \/ \E d \in TableInputs : nd.cls = "TableSelectString" /\ PeerData(d)
    \/ \E d \in AudioInputs : nd.cls = "AudioOut" /\ PeerData(d)
    \/ Handle
    \/ Step
    \/ \E value \in SamplingRates, devOk \in BOOLEAN :
          ParamChange("sampling_rate", value, devOk)
    \/ \E value \in Devices, devOk \in BOOLEAN :
          ParamChange("device", value, devOk)

SpecNode == InitNode /\ [][NextNode]_vars

\* the loop never stops taking pending Messages while it runs
SpecNodeFair == SpecNode /\ WF_vars(Handle)

(***************************************************************************)
(* SpecClf: nodes/analysis/classifier.py, process called again and again    *)
(* with any input and any parameter values                                 *)
(***************************************************************************)
\* classifier_choice options
ClassifierChoices ==
    {"NaiveBayes", "SVM", "RandomForest", "LogisticRegression", "KNeighbors"}

\* self.classifier = None
NoClassifier == [kind |-> "None", fitted |-> FALSE, fit_data |-> << >>,
                 fit_labels |-> << >>]

\* the if/elif chain that creates the classifier object for classifier_choice
NewClassifier(classifier_choice) ==
    [NoClassifier EXCEPT !.kind =
        CASE classifier_choice = "NaiveBayes" -> "GaussianNB"
          [] classifier_choice = "SVM" -> "SVC"
          [] classifier_choice = "RandomForest" -> "RandomForestClassifier"
          [] classifier_choice = "LogisticRegression" -> "LogisticRegression"
          [] classifier_choice = "KNeighbors" -> "KNeighborsClassifier"
          [] OTHER -> "None"]

\* Classifier.setup
Classifier_setup ==
    [training_data |-> << >>, training_labels |-> << >>,
     classifier |-> NoClassifier, classifier_trained |-> FALSE]

\* an ARRAY of shape (n_features, n_samples), held by its shape
ArrayData(n_features, n_samples, meta) ==
    Data("ARRAY", [shape |-> <<n_features, n_samples>>], meta)

\* data.data.T as a list of rows, each row held by its length
Transposed(data) == [i \in 1..data.data.shape[2] |-> data.data.shape[1]]

\* list.count(i)
Count(list, i) == Cardinality({j \in 1..Len(list) : list[j] = i})

\* the rows of X do not all have the same length: fit cannot build its array
Ragged(X) == \E i, j \in 1..Len(X) : X[i] # X[j]

ClfNone == [kind |-> "none"]
ClfRaised(err) == [kind |-> "raised", err |-> err]

\* add_to_training leaving the classifier and its trained flag as they are
Classifier_add_keeps_classifier(self, data, pm) ==
    [self EXCEPT
       !.training_data = @ \o Transposed(data),
       !.training_labels = @ \o [i \in 1..Len(Transposed(data)) |-> pm.current_state]]

\* the add_to_training branch of process
Classifier_add(self, data, pm) ==
    [self EXCEPT
       !.training_data = @ \o Transposed(data),
       !.training_labels = @ \o [i \in 1..Len(Transposed(data)) |-> pm.current_state],
       !.classifier = NoClassifier,
       !.classifier_trained = FALSE]

\* the clear_training branch of process
Classifier_clear(self) ==
    [self EXCEPT !.training_data = << >>, !.training_labels = << >>,
                 !.classifier = NoClassifier, !.classifier_trained = FALSE]

\* the try block around fit; fitOk: sklearn's fit does not raise on a well-formed
\* training set
Classifier_fit(self, fitOk) ==
    IF fitOk /\ self.classifier.kind # "None" /\ ~Ragged(self.training_data)
       THEN [self EXCEPT !.classifier.fitted = TRUE,
                         !.classifier.fit_data = self.training_data,
                         !.classifier.fit_labels = self.training_labels,
                         !.classifier_trained = TRUE]
       ELSE self

\* predict_proba and the metadata of the probs output; probs_by: the class of
\* the object whose predict_proba computed the probabilities
Classifier_output(self, data, pm) ==
    IF ~self.classifier.fitted \/ self.classifier.fit_data[1] # data.data.shape[1]
       THEN ClfRaised("ValueError")
       ELSE [kind |-> "out",
             probs_by |-> self.classifier.kind,
             classifier |-> pm.classifier_choice,
             training_set_size |->
                [i \in 1..pm.n_states |-> Count(self.training_labels, i)],
             n_features |-> self.training_data[1],
             has_sfreq |-> "sfreq" \in data.meta]

\* Classifier.process; data: the input slot
Classifier_process(self, data, pm, fitOk) ==
    IF ~data.full THEN [self |-> self, out |-> ClfNone]
    ELSE IF pm.add_to_training
        THEN [self |-> Classifier_add(self, data.val, pm), out |-> ClfNone]
    ELSE LET s1 == IF pm.clear_training THEN Classifier_clear(self) ELSE self
         IN  IF Len(s1.training_data) = 0 THEN [self |-> s1, out |-> ClfNone]
             ELSE LET s2 == IF s1.classifier.kind = "None"
                               THEN [s1 EXCEPT !.classifier =
                                        NewClassifier(pm.classifier_choice)]
                               ELSE s1
                      enough == \A i \in 1..pm.n_states :
                                   Count(s2.training_labels, i) >= 2
                      s3 == IF pm.train THEN Classifier_fit(s2, fitOk) ELSE s2
                  IN  IF pm.train /\ ~enough THEN [self |-> s2, out |-> ClfNone]
                      ELSE IF ~s3.classifier_trained
                         THEN [self |-> s3, out |-> ClfNone]
                      ELSE [self |-> s3, out |-> Classifier_output(s3, data.val, pm)]

\* the classifier_choice values the parameter is set to here
ChoicesTried == {"SVM", "RandomForest"}

\* the parameter values a process call may find
ClassifierParams ==
    [add_to_training : BOOLEAN, train : BOOLEAN, clear_training : BOOLEAN,
     classifier_choice : ChoicesTried, n_states : 1..2, current_state : 1..2]

\* what the data slot may hold
ClassifierInputs ==
    {EmptySlot} \cup
    {FullSlot(ArrayData(f, k, {"sfreq", "channels"})) : f \in 1..2, k \in 1..2}

\* one call of process by the runtime; the node keeps out, its last outcome
ClfProcess(data, pm, fitOk) ==
    /\ nd.cls = "Classifier"
    /\ LET r == Classifier_process(nd.self, data, pm, fitOk)
       IN  /\ Len(r.self.training_data) <= MaxTrain
           /\ nd' = [nd EXCEPT !.self = r.self, !.out = r.out,
                               !.grew = Len(r.self.training_data) >
                                        Len(nd.self.training_data),
                               !.cleared = data.full /\ ~pm.add_to_training
                                           /\ pm.clear_training]
    /\ UNCHANGED inbox
    /\ NodeFrame

InitClf ==
    /\ ManagerInit(TRUE)
    /\ msgIn = NoMsgIn
    /\ msgOut = NotConstructed
    /\ inbox = << >>
    /\ loop = NoRun
    /\ nd = [cls |-> "Classifier", self |-> Classifier_setup, out |-> ClfNone,
             grew |-> FALSE, cleared |-> FALSE]

NextClf ==
    \E data \in ClassifierInputs, pm \in ClassifierParams, fitOk \in BOOLEAN :
       ClfProcess(data, pm, fitOk)

SpecClf == InitClf /\ [][NextClf]_vars

(***************************************************************************)
(* SpecPsd: nodes/signal/psd.py, process called on a pending input whose    *)
(* metadata is a dict of dicts; dicts are objects on a heap, named by their *)
(* address, so that a copy and an alias can be told apart                  *)
(***************************************************************************)
\* values a dict holds: a number, a list, or a reference to another dict
Num(n) == [kind |-> "num", v |-> n]
List(l) == [kind |-> "list", v |-> l]
Ref(at) == [kind |-> "ref", at |-> at]

\* dict.copy(): a new dict with the same entries, references included
DictCopy(heap, at) == [heap |-> Append(heap, heap[at]), at |-> Len(heap) + 1]

\* d[key] = value on the dict at address at
DictSet(heap, at, key, value) ==
    [heap EXCEPT ![at] = [k \in DOMAIN heap[at] \cup {key} |->
                             IF k = key THEN value ELSE heap[at][k]]]

\* numpy.fft.fftfreq(n, 1 / sfreq)
FftFreq(n, sfreq) ==
    [k \in 1..n |-> IF k <= (n - 1) \div 2 + 1 THEN ((k - 1) * sfreq) \div n
                    ELSE ((k - 1 - n) * sfreq) \div n]

\* the frequency axis scipy.signal.welch returns for nperseg = nfft
WelchFreq(nperseg, sfreq) ==
    [k \in 1..(nperseg \div 2 + 1) |-> ((k - 1) * sfreq) \div nperseg]

PsdNone == [kind |-> "none"]
PsdRaised(err) == [kind |-> "raised", err |-> err]

\* PSD.process; data: the input slot, its val the pending Data with the number of
\* dimensions and samples of its array and the address of its meta dict; welchOk:
\* scipy.signal.welch accepts its arguments
PSD_process(heap, data, pm, welchOk) ==
    IF ~data.full \/ data.val.data.isNone THEN [heap |-> heap, out |-> PsdNone]
    ELSE IF data.val.data.ndim \notin {1, 2}
        THEN [heap |-> heap, out |-> PsdRaised("ValueError")]
    ELSE IF "sfreq" \notin DOMAIN heap[data.val.meta]
        THEN [heap |-> heap, out |-> PsdRaised("KeyError")]
    ELSE IF pm.method = "welch" /\ ~welchOk
        THEN [heap |-> heap, out |-> PsdRaised("ValueError")]
    ELSE LET sfreq == heap[data.val.meta]["sfreq"].v
             nperseg == sfreq \div pm.precision
             freq == IF pm.method = "fft" THEN FftFreq(data.val.data.n, sfreq)
                     ELSE WelchFreq(nperseg, sfreq)
             meta == DictCopy(heap, data.val.meta)
             valid == SelectSeq(freq, LAMBDA f : f >= pm.f_min /\ f <= pm.f_max)
             dim == IF data.val.data.ndim = 1 THEN "dim0" ELSE "dim1"
         IN  IF "channels" \notin DOMAIN meta.heap[meta.at]
                THEN [heap |-> meta.heap, out |-> PsdRaised("KeyError")]
             ELSE [heap |-> DictSet(meta.heap, meta.heap[meta.at]["channels"].at,
                                    dim, List(valid)),
                   out |-> [kind |-> "out", bins |-> Len(valid),
                            psd_meta |-> meta.at, phase_meta |-> meta.at]]

\* the arrays and metadata a pending input may carry: the meta dict is at
\* address 1 and its channels dict, when there is one, at address 2
PsdArrays ==
    {[isNone |-> TRUE, ndim |-> 0, n |-> 0]} \cup
    {[isNone |-> FALSE, ndim |-> d, n |-> n] : d \in 1..3, n \in {2, 4}}
PsdHeaps ==
    {<<[k \in {"sfreq"} |-> Num(4)]>>,
     <<[k \in {"channels"} |-> Ref(2)], [k \in {} |-> Num(0)]>>,
     <<[k \in {"sfreq", "channels"} |-> IF k = "sfreq" THEN Num(4) ELSE Ref(2)],
       [k \in {} |-> Num(0)]>>,
     <<[k \in {"sfreq", "channels"} |-> IF k = "sfreq" THEN Num(4) ELSE Ref(2)],
       [k \in {"dim0"} |-> List(<<7>>)]>>}
PsdParams == [method : {"fft", "welch"}, precision : 1..2, f_min : 0..1, f_max : 1..2]

\* the dict at address at with every reference replaced by the dict it points to
DeepValue(heap, at) ==
    [k \in DOMAIN heap[at] |->
        IF heap[at][k].kind = "ref" THEN heap[heap[at][k].at] ELSE heap[at][k]]

\* one call of process by the runtime on the pending input, which stays pending
PsdProcess(pm, welchOk) ==
    /\ nd.cls = "PSD"
    /\ nd.calls < MaxCalls
    /\ LET r == PSD_process(nd.heap, nd.slot, pm, welchOk)
       IN  nd' = [nd EXCEPT !.heap = r.heap, !.out = r.out, !.calls = @ + 1,
                            !.prev = nd.out]
    /\ UNCHANGED inbox
    /\ NodeFrame

InitPsd ==
    /\ ManagerInit(TRUE)
    /\ msgIn = NoMsgIn
    /\ msgOut = NotConstructed
    /\ inbox = << >>
    /\ loop = NoRun
    /\ \/ nd = [cls |-> "PSD", heap |-> << >>, slot |-> EmptySlot, out |-> PsdNone,
                prev |-> PsdNone, calls |-> 0]
       \/ \E a \in PsdArrays, h \in PsdHeaps :
             nd = [cls |-> "PSD", heap |-> h, slot |-> FullSlot(Data("ARRAY", a, 1)),
                   out |-> PsdNone, prev |-> PsdNone, calls |-> 0]

NextPsd == \E pm \in PsdParams, welchOk \in BOOLEAN : PsdProcess(pm, welchOk)

SpecPsd == InitPsd /\ [][NextPsd]_vars

(***************************************************************************)
(* SpecRun: src/neurofeedback/manager.py, Manager.run(n_iterations), one    *)
(* step per pass of its while loop; time is counted in quarters of a second *)
(***************************************************************************)
\* 1 / self.frequency, in quarters of a second
Period(frequency) == 4 \div frequency

\* the frequency and n_iterations values tried: -1 is the documented "as fast as
\* possible" and "infinite"
Frequencies == {-1, 0, 2, 4}
Iterations == -1..MaxIter

\* what a call of update comes to: it returns early while a buffer fills, runs
\* to its end, or raises out of a processor or an output
UpdateOutcomes == {"early", "full", "raised"}

\* Manager.__init__ followed by the first lines of run; has_inputs: data_in is
\* not empty
Run_start(n_iterations, frequency, has_inputs) ==
    [pc |-> "while", n_iterations |-> n_iterations, frequency |-> frequency,
     has_inputs |-> has_inputs, filling_buffer |-> has_inputs,
     too_slow_count |-> 0, it |-> 0, now |-> 0, last_time |-> 0,
     updates |-> 0, took |-> 0]

\* Manager.update, taking dur: the early return leaves filling_buffer set
Manager_update(self, outcome, dur) ==
    [self EXCEPT !.updates = @ + 1,
                 !.now = @ + dur,
                 !.took = dur,
                 !.filling_buffer = IF outcome = "full" THEN FALSE ELSE @]

\* a pass that counts as too slow already when it took exactly the period
Run_pass_strict(self, outcome, dur) ==
    LET updated == Manager_update(self, outcome, dur)
        current_time == updated.now
        sleep_dur == Period(self.frequency) - current_time + self.last_time
    IN  IF outcome = "raised" THEN [updated EXCEPT !.pc = "raised"]
        ELSE IF self.frequency <= 0 THEN [updated EXCEPT !.it = @ + 1]
        ELSE IF sleep_dur > 0
           THEN [updated EXCEPT !.it = @ + 1,
                                !.now = current_time + sleep_dur,
                                !.last_time = current_time + sleep_dur]
        ELSE [updated EXCEPT !.it = @ + 1,
                             !.too_slow_count = @ + 1,
                             !.last_time = current_time]

\* one pass of the while loop of run: update, it += 1, then the rate limit
Run_pass(self, outcome, dur) ==
    LET updated == Manager_update(self, outcome, dur)
        current_time == updated.now
        sleep_dur == Period(self.frequency) - current_time + self.last_time
    IN  IF outcome = "raised" THEN [updated EXCEPT !.pc = "raised"]
        ELSE IF self.frequency <= 0 THEN [updated EXCEPT !.it = @ + 1]
        ELSE IF sleep_dur >= 0
           THEN [updated EXCEPT !.it = @ + 1,
                                !.now = current_time + sleep_dur,
                                !.last_time = current_time + sleep_dur]
        ELSE [updated EXCEPT !.it = @ + 1,
                             !.too_slow_count = @ + 1,
                             !.last_time = current_time]

RunFrame ==
    UNCHANGED <<headless, running, nodes, refs, guiClosing, last, evts, opCount,
                termCount, msgIn, msgOut, nd, inbox>>

\* while it != n_iterations: the body
RunIterate(outcome, dur) ==
    /\ loop.pc = "while"
    /\ loop.it # loop.n_iterations
    /\ loop.updates < MaxUpdates
    /\ outcome = "early" => loop.has_inputs
    /\ loop' = Run_pass(loop, outcome, dur)
    /\ RunFrame

\* while it != n_iterations: the exit
RunReturn ==
    /\ loop.pc = "while"
    /\ loop.it = loop.n_iterations
    /\ loop' = [loop EXCEPT !.pc = "returned"]
    /\ RunFrame

InitRun ==
    /\ ManagerInit(TRUE)
    /\ msgIn = NoMsgIn
    /\ msgOut = NotConstructed
    /\ nd = NoNode
    /\ inbox = << >>
    /\ \E n_iterations \in Iterations, frequency \in Frequencies,
          has_inputs \in BOOLEAN :
          loop = Run_start(n_iterations, frequency, has_inputs)

NextRun ==
    \/ \E outcome \in UpdateOutcomes, dur \in 0..MaxDur : RunIterate(outcome, dur)
    \/ RunReturn

SpecRun == InitRun /\ [][NextRun]_vars

(***************************************************************************)
(* Properties of Message construction (SpecMsg)                            *)
(***************************************************************************)
\* the required-fields table of the message protocol: type -> {<<field, class>>}
FieldTable(type) ==
    CASE type \in {"ADD_OUTPUT_PIPE", "REMOVE_OUTPUT_PIPE"} ->
            {<<"slot_name_out", "str">>, <<"slot_name_in", "str">>,
             <<"node_connection", "Connection">>}
      [] type = "DATA" -> {<<"slot_name", "str">>, <<"data", "Data">>}
      [] type = "CLEAR_DATA" -> {<<"slot_name", "str">>}
      [] type \in {"PING", "PONG", "TERMINATE"} -> {}

CarriesRequired(type, content) ==
    \A p \in FieldTable(type) :
        p[1] \in DOMAIN content /\ content[p[1]].kind = p[2]

HasExtraField(type, content) ==
    \E f \in DOMAIN content : \A p \in FieldTable(type) : p[1] # f

Constructed == msgOut.done /\ msgIn.type \in MessageType /\ msgIn.isDict

\* C1: for every MessageType and content mapping, Message(type, content) succeeds
\* if the content holds every required field of the type with the required class,
\* and fails with a validation error (ValueError) if one is missing or mistyped.
C1_RequiredFieldsDecide ==
    Constructed =>
        /\ msgOut.ok <=> CarriesRequired(msgIn.type, msgIn.content)
        /\ ~msgOut.ok => msgOut.err \in {"ValueError:missing", "ValueError:type"}

C1_Witness ==
    /\ Constructed
    /\ msgIn.type = "ADD_OUTPUT_PIPE"
    /\ {"slot_name_out", "slot_name_in", "node_connection"} \subseteq DOMAIN msgIn.content
    /\ msgIn.content["slot_name_out"].kind = "str"
    /\ msgIn.content["slot_name_in"].kind = "str"
    /\ msgIn.content["node_connection"].kind = "Data"
    /\ ~msgOut.ok
    /\ msgOut.err = "ValueError:type"
    /\ msgOut.field = "node_connection"

\* C2 as stated: a content mapping holding any field beyond the required ones
\* (for PING, PONG, TERMINATE: any field at all) fails construction.
C2_ExactFieldsOnly ==
    (Constructed /\ HasExtraField(msgIn.type, msgIn.content)) => ~msgOut.ok

\* C2 amended: construction checks only the required fields; a content mapping
\* that carries them with the required classes is accepted whatever further
\* fields it holds (for PING, PONG, TERMINATE: every mapping is accepted).
C2_ExtraFieldsAccepted ==
    (/\ Constructed
     /\ HasExtraField(msgIn.type, msgIn.content)
     /\ CarriesRequired(msgIn.type, msgIn.content)) => msgOut.ok

C2_Witness ==
    /\ Constructed
    /\ msgIn.type = "CLEAR_DATA"
    /\ DOMAIN msgIn.content = {"slot_name", "extra"}
    /\ msgIn.content["slot_name"].kind = "str"
    /\ msgOut.ok

(***************************************************************************)
(* Properties of the NodeContainer and the Manager (Spec)                  *)
(***************************************************************************)
\* this step is a Manager call
IsCall == opCount' = opCount + 1

\* this step is an add_node call in which NodeContainer.add_node ran
IsContainerAdd == IsCall /\ last'.op = "add_node" /\ last'.key # ""

\* the base name NodeContainer.add_node was given in this step
BaseAdded == Lower(last'.args[1])

\* C3: NodeContainer.add_node returns a key that was not present before the call,
\* leaves every previously present key mapped to the same reference, grows the
\* container by exactly one entry; two adds in a row with the same base name return
\* two distinct keys, each the base name followed by a number.
C3_AddIsFresh ==
    [][IsContainerAdd =>
        /\ last'.key \notin Keys(nodes)
        /\ last'.key \in Keys(nodes')
        /\ \A k \in Keys(nodes) :
              k \in Keys(nodes') /\ GetItem(nodes', k) = GetItem(nodes, k)
        /\ Len(nodes') = Len(nodes) + 1
        /\ Cardinality(Keys(nodes')) = Cardinality(Keys(nodes)) + 1
        /\ (last.op = "add_node" /\ last.key # "" /\ Lower(last.args[1]) = BaseAdded)
              => /\ last'.key # last.key
                 /\ \E i, j \in 0..Len(nodes) :
                       /\ i # j
                       /\ last.key = KeyOf(BaseAdded, i)
                       /\ last'.key = KeyOf(BaseAdded, j)
    ]_vars

C3_Witness ==
    /\ last.op = "add_node"
    /\ last.key = "psd1"
    /\ Iter(nodes) = <<"audioout0", "psd0", "psd1">>

\* C4: NodeContainer.add_node assigns base+k for the smallest k >= 0 such that
\* base+k is not a key of the container, also when a lower suffix was freed by an
\* earlier remove: the freed suffix is taken.
C4_SmallestFreeSuffix ==
    [][IsContainerAdd =>
        \E k \in 0..Len(nodes) :
            /\ last'.key = KeyOf(BaseAdded, k)
            /\ KeyOf(BaseAdded, k) \notin Keys(nodes)
            /\ \A j \in 0..(k - 1) : KeyOf(BaseAdded, j) \in Keys(nodes)
    ]_vars

C4_Witness ==
    /\ last.op = "add_node"
    /\ last.key = "psd0"
    /\ Iter(nodes) = <<"psd1", "psd0">>

\* C5: in a fresh Manager two successful add_node calls for the same type name
\* return type0 then type1 (the lower-cased type name), and the container then
\* iterates exactly these two keys in this order.
C5_FreshManagerNames ==
    [][/\ (IsCall /\ opCount = 0 /\ last'.op = "add_node" /\ last'.result = "ok")
            => /\ last'.ret = KeyOf(BaseAdded, 0)
               /\ Iter(nodes') = <<KeyOf(BaseAdded, 0)>>
       /\ (/\ IsCall /\ opCount = 1
           /\ last.op = "add_node" /\ last.result = "ok"
           /\ last'.op = "add_node" /\ last'.result = "ok"
           /\ last'.args[1] = last.args[1])
            => /\ last.ret = KeyOf(BaseAdded, 0)
               /\ last'.ret = KeyOf(BaseAdded, 1)
               /\ Iter(nodes') = <<KeyOf(BaseAdded, 0), KeyOf(BaseAdded, 1)>>
    ]_vars

C5_Witness ==
    /\ opCount = 2
    /\ last.op = "add_node"
    /\ last.args = <<"AudioOut", "outputs">>
    /\ last.ret = "audioout1"
    /\ Iter(nodes) = <<"audioout0", "audioout1">>

\* C6: remove_node(name) for a name that is not a key fails with a not-found
\* error (KeyError), the container keeps the same keys and references, and no
\* TERMINATE is sent and no Link is closed.
C6_RemoveAbsent ==
    [][(IsCall /\ last'.op = "remove_node" /\ last'.args[1] \notin Keys(nodes))
         => /\ last'.result = "KeyError"
            /\ nodes' = nodes
            /\ refs' = refs
            /\ evts' = << >>
    ]_vars

C6_Witness ==
    /\ last.op = "remove_node"
    /\ last.args = <<"psd1">>
    /\ last.result = "KeyError"
    /\ Iter(nodes) = <<"psd0">>
    /\ ~refs[1].closed /\ ~refs[1].termSent

\* C7 as stated: in every reachable state every key of the container refers to a
\* live node: not sent TERMINATE, control Link not closed.
C7_KeysAreLive ==
    \A i \in 1..Len(nodes) :
        ~refs[nodes[i].ref].termSent /\ ~refs[nodes[i].ref].closed

\* C8 as stated: once terminate has completed, add_node, remove_node, add_link and
\* remove_link fail (with an illegal-state error), register no node and send no
\* message.
C8_CallsFailWhenTerminated ==
    (/\ last.op \in {"add_node", "remove_node", "add_link", "remove_link"}
     /\ ~last.wasRunning
     /\ last.termBefore >= 1)
        => /\ last.result # "ok"
           /\ last.key = ""
           /\ evts = << >>

\* C9 as stated: a second terminate() after a completed one does not raise and
\* performs no send or close on a control Link the first call already closed.
C9_TerminateIdempotent ==
    (/\ last.op = "terminate"
     /\ last.termBefore >= 1
     /\ (headless \/ ~last.notify))
        => /\ last.result = "ok"
           /\ \A i \in 1..Len(evts) : ~evts[i].wasClosed

\* C10 as stated: terminate() attempts a TERMINATE send and a close of the
\* control Link on every node of the container, even when the send on another
\* node, earlier in container order, fails.
C10_EveryNodeAttempted ==
    (/\ last.op = "terminate"
     /\ last.termBefore = 0
     /\ (headless \/ ~last.notify))
        => \A n \in 1..Len(nodes) :
              ~refs[nodes[n].ref].gone =>
                 /\ \E i \in 1..Len(evts) :
                       /\ evts[i].kind = "send"
                       /\ evts[i].ref = nodes[n].ref
                       /\ evts[i].msg.type = "TERMINATE"
                 /\ \E i \in 1..Len(evts) :
                       evts[i].kind = "close" /\ evts[i].ref = nodes[n].ref

\* C11: add_link and remove_link fail with a not-found error (KeyError) whenever
\* node_out or node_in is not a key of the container, also when only node_in is
\* absent; no message is sent and the container is unchanged.
C11_LinkToAbsentNode ==
    [][(/\ IsCall
        /\ last'.op \in {"add_link", "remove_link"}
        /\ (last'.args[1] \notin Keys(nodes) \/ last'.args[2] \notin Keys(nodes)))
         => /\ last'.result = "KeyError"
            /\ evts' = << >>
            /\ nodes' = nodes
            /\ refs' = refs
    ]_vars

C11_Witness ==
    /\ last.op = "add_link"
    /\ last.args[1] = "psd0"
    /\ last.args[2] = "psd1"
    /\ Iter(nodes) = <<"psd0">>
    /\ last.result = "KeyError"
    /\ evts = << >>

\* C13: an add_node that fails because the node type cannot be resolved or the
\* node's construction raises returns no name and leaves the container with the
\* same keys and references (no partial registration).
C13_FailedSpawnRegistersNothing ==
    [][(/\ IsCall
        /\ last'.op = "add_node"
        /\ \/ last'.result \in {"ModuleNotFoundError", "AttributeError", "SpawnError"}
           \/ ~\E m \in Registry :
                  /\ m.category = last'.args[2]
                  /\ m.module = Lower(last'.args[1])
                  /\ m.class = last'.args[1])
         => /\ last'.result # "ok"
            /\ last'.ret = ""
            /\ nodes' = nodes
            /\ refs' = refs
    ]_vars

C13_Witness ==
    /\ last.op = "add_node"
    /\ last.args = <<"PSD", "signal">>
    /\ last.result = "SpawnError"
    /\ Iter(nodes) = <<"psd0">>

\* C14 as stated: remove_node(name) for a present name swallows the errors of the
\* node's shutdown: it does not raise and the key is deleted.
C14_RemoveSwallowsShutdownErrors ==
    (last.op = "remove_node" /\ last.result # "KeyError")
        => /\ last.result # "LinkClosed"
           /\ last.args[1] \notin Keys(nodes)

\* C15 as stated: in non-headless mode a failure of the observer never makes
\* add_node, remove_node, add_link or remove_link fail; add_node returns the
\* assigned name.
C15_ObserverFailureIsolated ==
    (/\ last.op \in {"add_node", "remove_node", "add_link", "remove_link"}
     /\ ~headless
     /\ last.notify)
        => /\ last.result # "ObserverError"
           /\ (last.op = "add_node" /\ last.key # "") => last.ret = last.key

\* C20 as stated: running is true from construction and false after any call to
\* terminate() has returned.
C20_RunningFalseAfterTerminate ==
    /\ opCount = 0 => running
    /\ (last.op = "terminate" /\ last.result = "ok") => ~running

\* C20 amended: running is true from construction; a terminate() that takes the
\* shutdown branch (headless, or notify_gui false; so too the window's call back)
\* leaves running false whether it returns or raises; a terminate() with
\* notify_gui in non-headless mode only asks the window to close and leaves running
\* as it was; only terminate turns running false and nothing turns it true again.
C20_RunningStateMachine ==
    [][/\ opCount = 0 => running
       /\ ~running => ~running'
       /\ (running /\ ~running') => last'.op = "terminate"
       /\ (IsCall /\ last'.op = "terminate" /\ (headless \/ ~last'.notify))
             => ~running'
       /\ (IsCall /\ last'.op = "terminate" /\ ~headless /\ last'.notify)
             => (running' = running /\ guiClosing')
       /\ (guiClosing /\ ~guiClosing') => ~running'
    ]_vars

C20_Witness ==
    /\ last.op = "terminate"
    /\ last.result = "LinkClosed"
    /\ last.termBefore = 0
    /\ ~running

(***************************************************************************)
(* Properties of a constructed Message (SpecMut)                           *)
(***************************************************************************)
\* C16 as stated: a Message is immutable once constructed, so every Message that
\* exists still satisfies the required-fields check of its type.
C16_MessageStaysValid ==
    (msgOut.done /\ msgOut.ok /\ msgIn.type \in MessageType)
        => CarriesRequired(msgIn.type, msgIn.content)


(***************************************************************************)
(* Properties of the node runtime (SpecNode)                               *)
(***************************************************************************)
IsStep == nd'.steps = nd.steps + 1
IsHandle == inbox # << >> /\ inbox' = Tail(inbox)

\* C12: once the node has taken the REMOVE_OUTPUT_PIPE of a remove_link that
\* followed an add_link of the same (peer Link, slot) pair, the pair is out of the
\* subscriber set of the output slot, and no cycle after that forwards DATA to it,
\* while the pairs still linked keep receiving every output
C12_NoResidualSubscription ==
    [][/\ inbox' = << >> => nd'.subs \cap nd'.unlinked = {}
       /\ IsStep => /\ nd'.to \cap nd.unlinked = {}
                    /\ nd'.out.kind = "out" => nd.linked \subseteq nd'.to]_vars

C12_Witness ==
    /\ nd.cls = "TableSelectString"
    /\ inbox = << >>
    /\ nd.out.kind = "out"
    /\ <<2, "data">> \in nd.unlinked
    /\ nd.to = {<<3, "data">>}

\* the slot and the resources of the node are such that process has no reason
\* to raise
Healthy(n) ==
    IF n.cls = "TableSelectString"
       THEN /\ n.slot.full
            /\ ~n.slot.val.data.isNone
            /\ TableSelectString_key \in DOMAIN n.slot.val.data.entries
            /\ n.slot.val.data.entries[TableSelectString_key].dtype = "STRING"
       ELSE /\ n.slot.full
            /\ n.obj.stream.state = "open"

\* C17: a cycle whose process raises leaves the loop running with no output for
\* that cycle; a node whose last cycle raised answers PING with PONG, stops on
\* TERMINATE, and on its next cycle, the fault gone, produces its normal output
C17_ProcessFaultContained ==
    [][/\ IsStep /\ nd'.out.kind = "raised" =>
             nd'.alive /\ ~nd'.closed /\ nd'.to = {} /\ ~nd'.wrote
       /\ nd.out.kind = "raised" /\ nd.alive /\ IsHandle =>
             /\ Head(inbox).type = "PING" => nd'.reply = "PONG" /\ nd'.alive
             /\ Head(inbox).type = "TERMINATE" => ~nd'.alive /\ nd'.closed
       /\ nd.out.kind = "raised" /\ IsStep /\ Healthy(nd) =>
             IF nd.cls = "TableSelectString"
                THEN /\ nd'.out =
                          Returned(nd.slot.val.data.entries[TableSelectString_key].data,
                                   nd.slot.val.meta)
                     /\ nd'.to = nd.subs
                ELSE nd'.out = ReturnedNone /\ nd'.wrote]_vars

C17_Witness ==
    /\ nd.cls = "TableSelectString"
    /\ nd.alive
    /\ nd.prev = "raised"
    /\ nd.out.kind = "out"
    /\ nd.steps = 2

TerminatePending == \E i \in 1..Len(inbox) : inbox[i].type = "TERMINATE"

\* C18: with a TERMINATE pending or taken the node starts no processing cycle,
\* and a TERMINATE the Manager has sent always leads to the loop stopped and the
\* Links closed
C18_TerminateHonoured ==
    /\ [][TerminatePending \/ nd.termRecv => ~IsStep]_vars
    /\ (nd.termAsked ~> (~nd.alive /\ nd.closed))

C18_Witness ==
    /\ nd.termAsked
    /\ nd.termRecv
    /\ ~nd.alive
    /\ nd.closed
    /\ nd.steps > 0

\* C19: every cycle of an AudioOut node that writes to its stream finds the
\* stream opened with the current sampling_rate and device parameters
C19_StreamFollowsParams ==
    [][IsStep /\ nd.cls = "AudioOut" /\ nd'.wrote =>
          /\ nd.obj.stream.samplerate = ParseInt(nd.obj.sampling_rate)
          /\ nd.obj.stream.device = nd.obj.device]_vars

(***************************************************************************)
(* Frame and order of the Manager's calls (Spec)                           *)
(***************************************************************************)
\* C21: a successful add_link or remove_link sends one Message, on node_out's
\* Link, of type ADD_OUTPUT_PIPE or REMOVE_OUTPUT_PIPE, whose content is the two
\* slot names and node_in's Link; nothing goes to another Link and the container
\* and the Links stay as they were
C21_LinkSendsOneMessage ==
    [][IsCall /\ last'.op \in {"add_link", "remove_link"} /\ last'.result = "ok" =>
          LET a == last'.args
              m == evts'[1].msg
          IN  /\ Len(evts') = 1
              /\ evts'[1].kind = "send"
              /\ evts'[1].ok
              /\ evts'[1].ref = GetItem(nodes, a[1])
              /\ m.type = IF last'.op = "add_link" THEN "ADD_OUTPUT_PIPE"
                          ELSE "REMOVE_OUTPUT_PIPE"
              /\ DOMAIN m.content = {"slot_name_out", "slot_name_in", "node_connection"}
              /\ m.content["slot_name_out"] = StrVal(a[3])
              /\ m.content["slot_name_in"] = StrVal(a[4])
              /\ m.content["node_connection"] = ConnVal(GetItem(nodes, a[2]))
              /\ nodes' = nodes
              /\ refs' = refs]_vars

C21_Witness ==
    /\ last.op = "remove_link"
    /\ last.result = "ok"
    /\ last.args[1] # last.args[2]
    /\ Len(evts) = 1
    /\ evts[1].msg.type = "REMOVE_OUTPUT_PIPE"

IsShutdown ==
    \/ IsCall /\ last'.op = "terminate" /\ (headless \/ ~last'.notify)
    \/ guiClosing /\ ~guiClosing'

\* C23: the events of a shutdown go through the container in insertion order,
\* two per node: the TERMINATE sent on the node's Link, then the close of that
\* Link, the close only after the send went through
C23_TerminateInOrder ==
    [][IsShutdown =>
          \A j \in 1..Len(evts') :
             LET i == (j + 1) \div 2
             IN  /\ i <= Len(nodes)
                 /\ evts'[j].ref = nodes[i].ref
                 /\ IF j % 2 = 1
                       THEN /\ evts'[j].kind = "send"
                            /\ evts'[j].msg.type = "TERMINATE"
                       ELSE /\ evts'[j].kind = "close"
                            /\ evts'[j - 1].ok]_vars

C23_Witness ==
    /\ last.op = "terminate"
    /\ last.result = "ok"
    /\ ~running
    /\ Len(nodes) = 2
    /\ Len(evts) = 4

\* C24: a key leaves the container only in a remove_node of that key that did
\* not raise, after the node's Link was sent a TERMINATE (in this call or in an
\* earlier shutdown) and closed; a remove_node whose termination raises leaves
\* the container as it was
C24_KeysLeaveOnlyByRemoveNode ==
    [][/\ Keys(nodes) \ Keys(nodes') # {} =>
             /\ IsCall
             /\ last'.op = "remove_node"
             /\ last'.result # "LinkClosed"
             /\ Keys(nodes) \ Keys(nodes') = {last'.args[1]}
             /\ LET r == GetItem(nodes, last'.args[1])
                IN  /\ refs'[r].closed
                    /\ \/ refs[r].termSent
                       \/ /\ Len(evts') = 2
                          /\ evts'[1].kind = "send"
                          /\ evts'[1].ref = r
                          /\ evts'[1].msg.type = "TERMINATE"
                          /\ evts'[2].kind = "close"
       /\ IsCall /\ last'.op = "remove_node" /\ last'.result = "LinkClosed" =>
             nodes' = nodes]_vars

C24_Witness ==
    /\ last.op = "remove_node"
    /\ last.result = "LinkClosed"
    /\ Contains(nodes, last.args[1])
    /\ Len(evts) = 1
    /\ ~evts[1].ok

(***************************************************************************)
(* Properties of the Classifier node (SpecClf)                             *)
(***************************************************************************)
\* C25: classifier_trained is set only with a classifier object fitted on the
\* training set as it is now, which is not empty; a call that adds to the training
\* set or clears it leaves classifier None and classifier_trained false; process
\* returns probs only with classifier_trained set
C25_TrainedMeansFitted ==
    /\ nd.self.classifier_trained =>
          /\ nd.self.classifier.kind # "None"
          /\ nd.self.classifier.fitted
          /\ nd.self.classifier.fit_data = nd.self.training_data
          /\ nd.self.classifier.fit_labels = nd.self.training_labels
          /\ Len(nd.self.training_data) > 0
    /\ nd.grew \/ (nd.cleared /\ Len(nd.self.training_data) = 0) =>
          /\ nd.self.classifier = NoClassifier
          /\ ~nd.self.classifier_trained
    /\ nd.out.kind = "out" => nd.self.classifier_trained

C25_Witness ==
    /\ nd.self.classifier_trained
    /\ nd.out.kind = "out"
    /\ Len(nd.self.training_data) = 4

\* C26: the classifier entry of the probs metadata names the kind of the object
\* that computed the probabilities
C26_MetaNamesClassifier ==
    nd.out.kind = "out" => NewClassifier(nd.out.classifier).kind = nd.out.probs_by

(***************************************************************************)
(* Properties of the PSD node (SpecPsd)                                    *)
(***************************************************************************)
\* C27: a call of process leaves the metadata of its input as it was, nested
\* dicts included, and the metadata of its outputs reaches no dict that the
\* input's metadata reaches
C27_ProcessLeavesInput ==
    [][nd'.calls = nd.calls + 1 /\ nd.slot.full =>
          /\ DeepValue(nd'.heap, nd.slot.val.meta) = DeepValue(nd.heap, nd.slot.val.meta)
          /\ nd'.out.kind = "out" =>
                /\ nd'.out.psd_meta # nd.slot.val.meta
                /\ \A k \in DOMAIN nd'.heap[nd'.out.psd_meta] :
                      nd'.heap[nd'.out.psd_meta][k].kind = "ref" =>
                         \A j \in DOMAIN nd'.heap[nd.slot.val.meta] :
                            nd'.heap[nd.slot.val.meta][j] #
                               nd'.heap[nd'.out.psd_meta][k]]_vars

(***************************************************************************)
(* Properties of the polling Manager's run (SpecRun)                       *)
(***************************************************************************)
IsPass == loop'.updates = loop.updates + 1

\* C28 as stated: run ends only by returning, after exactly n_iterations updates
\* when n_iterations >= 0 and never when it is -1; too_slow_count goes up by one
\* in exactly the passes that took longer than 1 / frequency
C28_RunCallsUpdateExactly ==
    [][/\ loop'.n_iterations >= 0 /\ loop'.pc # "while" =>
             loop'.pc = "returned" /\ loop'.updates = loop'.n_iterations
       /\ loop'.n_iterations = -1 => loop'.pc # "returned"
       /\ loop'.too_slow_count >= loop.too_slow_count
       /\ IsPass /\ loop.frequency # 0 =>
             loop'.too_slow_count =
                IF loop'.took > Period(loop.frequency)
                   THEN loop.too_slow_count + 1 ELSE loop.too_slow_count]_vars

\* C28, amended: run returns only after exactly n_iterations updates, none of
\* which raised, and never with n_iterations < 0; an update that raises ends run
\* at once; too_slow_count never goes down, goes up by one in exactly the passes
\* with frequency > 0 whose update returned after more than 1 / frequency, and
\* stays as it is with frequency <= 0
C28_RunReturnsAfterIterations ==
    [][/\ loop'.pc = "returned" =>
             /\ loop'.n_iterations >= 0
             /\ loop'.updates = loop'.n_iterations
             /\ loop'.it = loop'.n_iterations
       /\ loop'.n_iterations >= 0 => loop'.updates <= loop'.n_iterations
       /\ loop'.pc = "raised" => IsPass /\ loop'.it = loop.it
       /\ loop'.too_slow_count >= loop.too_slow_count
       /\ IsPass =>
             loop'.too_slow_count =
                IF loop'.pc = "while" /\ loop.frequency > 0
                   /\ loop'.took > Period(loop.frequency)
                   THEN loop.too_slow_count + 1 ELSE loop.too_slow_count]_vars

C28_Witness ==
    /\ loop.pc = "returned"
    /\ loop.n_iterations = 2
    /\ loop.updates = 2
    /\ loop.frequency = 2
    /\ loop.too_slow_count = 1

============================================================================
